---- MODULE Spec2Model ----
(***************************************************************************)
(* A model of the PDF-to-HTML conversion service of src/main.py: the       *)
(* /convert handler, pdf_to_html with its thread pool, process_page with   *)
(* its text and image loops, sanitize_text and optimize_image.             *)
(*                                                                         *)
(* Strings are sequences of one-character strings, so that sanitize_text   *)
(* is computed character by character.  Python floats are IEEE-754 binary64*)
(* values, kept as a significand (a sequence of bits, most significant     *)
(* first) and a binary exponent, so that 1200 / max_dimension and          *)
(* int(width * scale_factor) round exactly as the interpreter rounds them. *)
(***************************************************************************)
EXTENDS Integers, Sequences, FiniteSets, TLC

(***************************************************************************)
(* Bounds of the model: the pages of a document, the characters of a span  *)
(* text, the spans and the images of a page, and the width of the limbs    *)
(* the float arithmetic is carried out in.                                 *)
(***************************************************************************)
MaxPages == 3
MaxLen == 2
MaxSpans == 2
MaxImages == 2
LimbBits == 16

(***************************************************************************)
(* Program constants.                                                      *)
(***************************************************************************)
DefaultMaxWorkers == 4
DefaultFontScalePercent == 85
DefaultImageQuality == 85
MinImageDimension == 10
MaxImageDimension == 5000
ResizeThreshold == 1200
BoldFlag == 16
MantissaBits == 53
MinWorkers == 1
MaxWorkers == 8
MinFontScalePercent == 50
MaxFontScalePercent == 150
MinImageQuality == 50
MaxImageQuality == 100

(***************************************************************************)
(* Generic helpers.                                                        *)
(***************************************************************************)
Max2(a, b) == IF a >= b THEN a ELSE b

Min2(a, b) == IF a <= b THEN a ELSE b

SeqsUpTo(S, n) == UNION {[1..k -> S] : k \in 0..n}

(***************************************************************************)
(* sanitize_text (src/main.py 30-36).                                      *)
(***************************************************************************)
Whitespace == {" ", "\t"}

\* re.sub(r'\s+', ' ', text): every maximal run of whitespace becomes one space.
RECURSIVE CollapseWhitespace(_)
CollapseWhitespace(s) ==
    IF s = <<>> THEN <<>>
    ELSE IF Head(s) \in Whitespace
         THEN IF Len(s) > 1 /\ s[2] \in Whitespace
              THEN CollapseWhitespace(Tail(s))
              ELSE <<" ">> \o CollapseWhitespace(Tail(s))
         ELSE <<Head(s)>> \o CollapseWhitespace(Tail(s))

\* str.replace(old, new) for a one-character old.
RECURSIVE Replace(_, _, _)
Replace(s, old, new) ==
    IF s = <<>> THEN <<>>
    ELSE (IF Head(s) = old THEN new ELSE <<Head(s)>>) \o Replace(Tail(s), old, new)

AmpEntity == <<"&", "a", "m", "p", ";">>
LtEntity == <<"&", "l", "t", ";">>
GtEntity == <<"&", "g", "t", ";">>

\* text.replace('&', '&amp;').replace('<', '&lt;').replace('>', '&gt;')
NoEscapeHtml(s) == s

EscapeHtml(s) == Replace(Replace(Replace(s, "&", AmpEntity), "<", LtEntity), ">", GtEntity)

RECURSIVE LStrip(_)
LStrip(s) == IF s # <<>> /\ Head(s) \in Whitespace THEN LStrip(Tail(s)) ELSE s

RECURSIVE RStrip(_)
RStrip(s) ==
    IF s # <<>> /\ s[Len(s)] \in Whitespace THEN RStrip(SubSeq(s, 1, Len(s) - 1)) ELSE s

\* str.strip()
Strip(s) == RStrip(LStrip(s))

sanitize_text(text) == Strip(EscapeHtml(CollapseWhitespace(text)))

(***************************************************************************)
(* IEEE-754 binary64 arithmetic on positive values.  A float is            *)
(* [m |-> bits, e |-> exponent] and stands for Value(m) * 2^e; m has no    *)
(* leading zero and at most MantissaBits bits.                             *)
(***************************************************************************)
RECURSIVE NatToBits(_)
NatToBits(n) == IF n = 0 THEN <<>> ELSE Append(NatToBits(n \div 2), n % 2)

RECURSIVE BitsToNat(_)
BitsToNat(b) ==
    IF b = <<>> THEN 0 ELSE 2 * BitsToNat(SubSeq(b, 1, Len(b) - 1)) + b[Len(b)]

Zeros(k) == [i \in 1..k |-> 0]

\* b without its leading zeros.
TrimBits(b) ==
    IF \A i \in 1..Len(b) : b[i] = 0 THEN <<>>
    ELSE LET first == CHOOSE i \in 1..Len(b) : b[i] = 1 /\ \A h \in 1..(i - 1) : b[h] = 0
         IN  SubSeq(b, first, Len(b))

\* b + 1
IncBits(b) ==
    IF \A i \in 1..Len(b) : b[i] = 1 THEN <<1>> \o Zeros(Len(b))
    ELSE LET last == CHOOSE i \in 1..Len(b) : b[i] = 0 /\ \A h \in (i + 1)..Len(b) : b[h] = 1
         IN  SubSeq(b, 1, last - 1) \o <<1>> \o Zeros(Len(b) - last)

\* Multiplication and division go through limbs of LimbBits bits, most
\* significant first, so that every intermediate value stays a small integer.
LimbBase == 2 ^ LimbBits

ToLimbs(b) ==
    LET count == (Len(b) + LimbBits - 1) \div LimbBits
        padded == Zeros(count * LimbBits - Len(b)) \o b
    IN  [i \in 1..count |-> BitsToNat(SubSeq(padded, (i - 1) * LimbBits + 1, i * LimbBits))]

FromLimbs(ls) ==
    TrimBits([h \in 1..(Len(ls) * LimbBits) |->
        (ls[(h - 1) \div LimbBits + 1] \div (2 ^ (LimbBits - 1 - ((h - 1) % LimbBits)))) % 2])

\* ls * w for a natural w below LimbBase, from the least significant limb.
RECURSIVE MulLimbsAcc(_, _, _, _)
MulLimbsAcc(ls, w, carry, acc) ==
    IF ls = <<>> THEN <<carry>> \o acc
    ELSE LET t == ls[Len(ls)] * w + carry
         IN  MulLimbsAcc(SubSeq(ls, 1, Len(ls) - 1), w, t \div LimbBase,
                         <<t % LimbBase>> \o acc)

MulBits(b, w) == FromLimbs(MulLimbsAcc(ToLimbs(b), w, 0, <<>>))

\* Long division of ls by a natural d below LimbBase:
\* [q |-> quotient bits, r |-> remainder].
RECURSIVE DivLimbsAcc(_, _, _, _)
DivLimbsAcc(ls, d, rem, acc) ==
    IF ls = <<>> THEN [q |-> FromLimbs(acc), r |-> rem]
    ELSE LET t == rem * LimbBase + Head(ls)
         IN  DivLimbsAcc(Tail(ls), d, t % d, Append(acc, t \div d))

DivBits(b, d) == DivLimbsAcc(ToLimbs(b), d, 0, <<>>)

\* The binary64 nearest to Value(b) * 2^e, ties to even.
RoundToFloat(b, e) ==
    IF Len(b) <= MantissaBits THEN [m |-> b, e |-> e]
    ELSE LET keep == SubSeq(b, 1, MantissaBits)
             rest == SubSeq(b, MantissaBits + 1, Len(b))
             sticky == \E i \in 2..Len(rest) : rest[i] = 1
             up == rest[1] = 1 /\ (sticky \/ keep[MantissaBits] = 1)
             m1 == IF up THEN IncBits(keep) ELSE keep
         IN  IF Len(m1) > MantissaBits
             THEN [m |-> SubSeq(m1, 1, MantissaBits), e |-> e + Len(rest) + 1]
             ELSE [m |-> m1, e |-> e + Len(rest)]

\* a / b for positive ints (true division, correctly rounded).
FloatDiv(a, b) ==
    LET shift == MantissaBits + 2 + Len(NatToBits(b))
        d == DivBits(NatToBits(a) \o Zeros(shift), b)
    IN  RoundToFloat(Append(d.q, IF d.r # 0 THEN 1 ELSE 0), -(shift + 1))

\* w * f for an int w and a float f: float(w) * f, rounded once.
FloatMulInt(w, f) == RoundToFloat(MulBits(f.m, w), f.e)

\* int(f): truncation toward zero.
FloatToInt(f) ==
    IF f.e >= 0 THEN BitsToNat(f.m \o Zeros(f.e))
    ELSE IF Len(f.m) + f.e <= 0 THEN 0
    ELSE BitsToNat(SubSeq(f.m, 1, Len(f.m) + f.e))

(***************************************************************************)
(* The input of one /convert request.  A document is what fitz.open        *)
(* returns; a page is what iterating the document yields.  The text of a   *)
(* page is kept as the spans of get_text("dict")["blocks"] in the order    *)
(* the three nested loops of process_page visit them, each with the index  *)
(* of its block and of its line; image_blocks are the bbox values of the   *)
(* type-1 blocks of the same list, in list order.                          *)
(***************************************************************************)
Run(t, px, py, sz, fl, b, l) ==
    [text |-> t, x |-> px, y |-> py, size |-> sz, color |-> 0, flags |-> fl,
     block |-> b, line |-> l]

Pixmap(w, h, channels, enc) ==
    [kind |-> "pixmap", width |-> w, height |-> h, n |-> channels, encodes |-> enc]

\* An img_info that is empty or shorter than three entries.
InvalidInfo == [kind |-> "invalid_info", width |-> 0, height |-> 0, n |-> 0, encodes |-> FALSE]

\* An xref for which doc.extract_image or fitz.Pixmap raises.
BrokenImage == [kind |-> "broken", width |-> 0, height |-> 0, n |-> 0, encodes |-> FALSE]

Page(ld, tok, rs, iblocks, iok, imgs) ==
    [loads |-> ld, width |-> 600, height |-> 800, text_ok |-> tok, runs |-> rs,
     image_blocks |-> iblocks, images_ok |-> iok, images |-> imgs]

Document(d, op, ps) == [data |-> d, opens |-> op, pages |-> ps]

Alphabet == {"a", " ", "\t", "&", "<", ">"}

PlainRun == Run(<<"a">>, 50, 750, 12, 0, 0, 0)

PlainPage == Page(TRUE, TRUE, <<PlainRun>>, <<>>, TRUE, <<>>)

\* Whole documents: every page is plain, cannot be loaded, has a text
\* extraction that raises, or has an image listing that raises.
PipelinePages ==
    {PlainPage,
     Page(FALSE, TRUE, <<>>, <<>>, TRUE, <<>>),
     Page(TRUE, FALSE, <<>>, <<>>, TRUE, <<>>),
     Page(TRUE, TRUE, <<PlainRun>>, <<>>, FALSE, <<>>)}

PipelineDocs ==
    {Document("none", TRUE, <<PlainPage>>), Document("short", TRUE, <<PlainPage>>),
     Document("pdf", FALSE, <<PlainPage>>)}
    \cup {Document("pdf", TRUE, ps) : ps \in UNION {[1..n -> PipelinePages] : n \in 1..MaxPages}}

\* One page of text: spans at several origins, laid out in one or several
\* lines and blocks.  A span without its place is a run with block and line 0.
SampleRuns ==
    {Run(<<"a">>, 50, 750, 12, 0, 0, 0), Run(<<"a">>, 200, 750, 12, 0, 0, 0),
     Run(<<"a">>, 50, 800, 12, 0, 0, 0), Run(<<"a">>, 50, 0, 12, 0, 0, 0),
     Run(<<" ">>, 50, 750, 12, 0, 0, 0),
     Run(<<"H", " ", " ", "W">>, 50, 750, 12, BoldFlag, 0, 0)}

Places == {<<0, 0>>, <<0, 1>>, <<1, 0>>}

InLoopOrder(ps) ==
    \A a \in 1..(Len(ps) - 1) :
        \/ ps[a][1] < ps[a + 1][1]
        \/ ps[a][1] = ps[a + 1][1] /\ ps[a][2] <= ps[a + 1][2]

Layouts(n) == {ps \in [1..n -> Places] : InLoopOrder(ps)}

TextDocs ==
    UNION {
        {Document("pdf", TRUE,
                  <<Page(TRUE, TRUE,
                         [k \in 1..n |-> [rs[k] EXCEPT !.block = ps[k][1], !.line = ps[k][2]]],
                         <<>>, TRUE, <<>>)>>) :
            rs \in [1..n -> SampleRuns], ps \in Layouts(n)} : n \in 0..MaxSpans}

\* One page with one span of any text over the alphabet.
SanitizeDocs ==
    {Document("pdf", TRUE, <<Page(TRUE, TRUE, <<Run(t, 50, 750, 12, 0, 0, 0)>>, <<>>, TRUE, <<>>)>>) :
        t \in SeqsUpTo(Alphabet, MaxLen)}

\* One page of images: sizes around the validation and resize thresholds,
\* every channel count, and images that cannot be extracted or encoded.
SampleSizes ==
    {<<w, 1200>> : w \in {5, 10, 1200, 2191, 3000, 5000, 5001}}
    \cup {<<1200, h>> : h \in {5, 10, 2191, 5000, 5001}}
    \cup {<<3000, 2000>>}

SampleImages ==
    {Pixmap(s[1], s[2], 3, TRUE) : s \in SampleSizes}
    \cup {Pixmap(640, 480, c, TRUE) : c \in 1..4}
    \cup {Pixmap(640, 480, 3, FALSE), InvalidInfo, BrokenImage}

SampleBBoxes == {<<10, 20, 110, 220>>, <<300, 400, 350, 450>>}

ImageDocs ==
    {Document("pdf", TRUE, <<Page(TRUE, TRUE, <<PlainRun>>, <<>>, TRUE, imgs)>>) :
        imgs \in SeqsUpTo(SampleImages, MaxImages)}
    \cup {Document("pdf", TRUE, <<Page(TRUE, TRUE, <<PlainRun>>, bs, TRUE, imgs)>>) :
            bs \in SeqsUpTo(SampleBBoxes, 2) \ {<<>>},
            imgs \in SeqsUpTo({Pixmap(640, 480, 3, TRUE), Pixmap(3000, 2000, 3, TRUE)}, MaxImages)}

Docs == PipelineDocs \cup TextDocs \cup SanitizeDocs \cup ImageDocs

(***************************************************************************)
(* Markup.  A fragment is the list of the pieces process_page joins; the   *)
(* final document is the list of the pieces pdf_to_html joins.  The fields *)
(* run (of a text node) and page_num (of a pdf-page fragment) are not part *)
(* of the markup: they record which span and which page a piece was built  *)
(* from.                                                                   *)
(***************************************************************************)
PageOpen(page) == [kind |-> "page-open", width |-> page.width, height |-> page.height]

TextLayerOpen == [kind |-> "text-layer-open"]

TextLayerClose == [kind |-> "text-layer-close"]

PageClose == [kind |-> "page-close"]

ErrorPage(page_num) == [kind |-> "error-page", page_num |-> page_num, parts |-> <<>>]

PdfPage(page_num, parts) == [kind |-> "pdf-page", page_num |-> page_num, parts |-> parts]

DocumentHead(page_count) == [kind |-> "head", page_count |-> page_count]

DocumentScript == [kind |-> "script"]

DocumentClose == [kind |-> "close"]

EmptyDataUrl == [fmt |-> "", width |-> 0, height |-> 0, quality |-> 0]

\* The pdf-text div of one span (src/main.py 102-129); scale is in percent.
FlippedTextNode(page, k, text, scale, spacing) ==
    LET span == page.runs[k]
    IN  [kind |-> "pdf-text", left |-> span.x, top |-> page.height - span.y,
         font_size |-> span.size * scale, color |-> <<span.color, span.color, span.color>>,
         font_weight |-> IF (span.flags \div BoldFlag) % 2 = 1 THEN "bold" ELSE "normal",
         letter_spacing |-> IF spacing THEN "0.02em" ELSE "normal",
         text |-> text, run |-> k]

TextNode(page, k, text, scale, spacing) ==
    LET span == page.runs[k]
    IN  [kind |-> "pdf-text", left |-> span.x, top |-> span.y,
         font_size |-> span.size * scale, color |-> <<span.color, span.color, span.color>>,
         font_weight |-> IF (span.flags \div BoldFlag) % 2 = 1 THEN "bold" ELSE "normal",
         letter_spacing |-> IF spacing THEN "0.02em" ELSE "normal",
         text |-> text, run |-> k]

\* One pass of the span loop (src/main.py 97-129): nothing for a span whose
\* sanitized text is empty, one pdf-text div otherwise.
SpanPartsNoSkip(page, k, scale, spacing) ==
    <<TextNode(page, k, sanitize_text(page.runs[k].text), scale, spacing)>>

SpanParts(page, k, scale, spacing) ==
    LET text == sanitize_text(page.runs[k].text)
    IN  IF text = <<>> THEN <<>> ELSE <<TextNode(page, k, text, scale, spacing)>>

\* The size test of src/main.py 155.
SizeOkExclusive(pixmap) ==
    ~(\/ pixmap.width <= MinImageDimension \/ pixmap.height <= MinImageDimension
      \/ pixmap.width >= MaxImageDimension \/ pixmap.height >= MaxImageDimension)

SizeOk(pixmap) ==
    ~(\/ pixmap.width < MinImageDimension \/ pixmap.height < MinImageDimension
      \/ pixmap.width > MaxImageDimension \/ pixmap.height > MaxImageDimension)

\* len(pixmap.samples): one byte per channel and pixel.
SamplesLen(pixmap) == pixmap.width * pixmap.height * pixmap.n

\* The bytes per pixel of a PIL mode.
Bands(mode) == IF mode = "RGB" THEN 3 ELSE 1

\* Image.frombytes(mode, [width, height], samples) (src/main.py 47-50) returns
\* an image when samples holds at least the bytes the image needs, ignoring
\* the bytes beyond them, and raises "not enough image data" otherwise.
FromBytesExact(mode, width, height, len) == len = width * height * Bands(mode)

FromBytes(mode, width, height, len) == len >= width * height * Bands(mode)

\* optimize_image (src/main.py 38-76): the data URL, or the empty string when
\* anything in it raises.  quality is the default argument, bound to
\* IMAGE_QUALITY when the function was defined.
optimize_image(pixmap, quality) ==
    IF \/ ~pixmap.encodes
       \/ ~FromBytes(IF pixmap.n >= 3 THEN "RGB" ELSE "L", pixmap.width, pixmap.height,
                     SamplesLen(pixmap))
    THEN EmptyDataUrl
    ELSE LET img_format == IF pixmap.n >= 3 THEN "jpeg" ELSE "png"
             max_dimension == Max2(pixmap.width, pixmap.height)
             scale_factor == FloatDiv(ResizeThreshold, max_dimension)
             resize == max_dimension > ResizeThreshold
         IN  [fmt |-> img_format,
              width |-> IF resize THEN FloatToInt(FloatMulInt(pixmap.width, scale_factor))
                        ELSE pixmap.width,
              height |-> IF resize THEN FloatToInt(FloatMulInt(pixmap.height, scale_factor))
                         ELSE pixmap.height,
              quality |-> IF img_format = "jpeg" THEN quality ELSE 0]

\* The position of an image (src/main.py 159-165): the native size, overwritten
\* by the bbox of every image block of the page in turn.
ImageBBox(page, pixmap) ==
    IF page.image_blocks = <<>> THEN <<0, 0, pixmap.width, pixmap.height>>
    ELSE page.image_blocks[Len(page.image_blocks)]

ImageNode(data_url, bbox, img_index) ==
    [kind |-> "pdf-image", src |-> data_url, left |-> bbox[1], top |-> bbox[2],
     width |-> bbox[3] - bbox[1], height |-> bbox[4] - bbox[2], img_index |-> img_index]

\* One pass of the image loop (src/main.py 137-178): raised tells whether an
\* exception leaves the loop body, parts is what is appended to images_html.
ImagePartsUnguarded(page, j) ==
    LET img == page.images[j]
        data_url == optimize_image(img, DefaultImageQuality)
    IN  IF img.kind = "invalid_info" THEN [raised |-> FALSE, parts |-> <<>>]
        ELSE IF img.kind = "broken" \/ ~img.encodes THEN [raised |-> TRUE, parts |-> <<>>]
        ELSE IF ~SizeOk(img) THEN [raised |-> FALSE, parts |-> <<>>]
        ELSE [raised |-> FALSE, parts |-> <<ImageNode(data_url, ImageBBox(page, img), j - 1)>>]

ImageParts(page, j) ==
    LET img == page.images[j]
        data_url == optimize_image(img, DefaultImageQuality)
    IN  IF img.kind = "invalid_info" THEN [raised |-> FALSE, parts |-> <<>>]
        ELSE IF img.kind = "broken" THEN [raised |-> FALSE, parts |-> <<>>]
        ELSE IF ~SizeOk(img) THEN [raised |-> FALSE, parts |-> <<>>]
        ELSE IF data_url = EmptyDataUrl THEN [raised |-> FALSE, parts |-> <<>>]
        ELSE [raised |-> FALSE, parts |-> <<ImageNode(data_url, ImageBBox(page, img), j - 1)>>]

(***************************************************************************)
(* The body of a POST /config request (src/main.py 378-396).  A field is   *)
(* absent (or null), a number, or a text that int() and float() reject;    *)
(* text_spacing is absent or a value whose bool() is true or false; a      *)
(* request without a JSON object has json = FALSE.  font_scale and         *)
(* FONT_SCALE_FACTOR are in percent.                                       *)
(***************************************************************************)
Absent == [kind |-> "absent", v |-> 0]

Text == [kind |-> "text", v |-> 0]

Number(v) == [kind |-> "number", v |-> v]

PostBody(mw, fs, iq, ts) ==
    [json |-> TRUE, max_workers |-> mw, font_scale |-> fs, image_quality |-> iq,
     text_spacing |-> ts]

NoBody == [json |-> FALSE, max_workers |-> Absent, font_scale |-> Absent,
           image_quality |-> Absent, text_spacing |-> "absent"]

Fields(values) == {Absent, Text} \cup {Number(v) : v \in values}

PostBodies ==
    {NoBody}
    \cup {PostBody(mw, fs, iq, ts) :
            mw \in Fields({-1, 2, 100}), fs \in Fields({0, 70, 200}),
            iq \in Fields({-1, 60, 1000}), ts \in {"absent", "true", "false"}}

\* max(lo, min(hi, v))
NoClamp(lo, hi, v) == v

Clamp(lo, hi, v) == Max2(lo, Min2(hi, v))

Config(mw, fs, iq, ts) ==
    [MAX_WORKERS |-> mw, FONT_SCALE_FACTOR |-> fs, IMAGE_QUALITY |-> iq,
     ENABLE_TEXT_SPACING |-> ts]

\* The try block of src/main.py 379-393 on the globals cfg: the assignments
\* are made one after the other, and a field that cannot be converted raises
\* after the assignments before it were made.
UpdateConfig(cfg, data) ==
    LET c1 == IF data.max_workers.kind = "number"
              THEN [cfg EXCEPT !.MAX_WORKERS = Clamp(MinWorkers, MaxWorkers, data.max_workers.v)]
              ELSE cfg
        c2 == IF data.font_scale.kind = "number"
              THEN [c1 EXCEPT !.FONT_SCALE_FACTOR =
                       Clamp(MinFontScalePercent, MaxFontScalePercent, data.font_scale.v)]
              ELSE c1
        c3 == IF data.image_quality.kind = "number"
              THEN [c2 EXCEPT !.IMAGE_QUALITY =
                       Clamp(MinImageQuality, MaxImageQuality, data.image_quality.v)]
              ELSE c2
        c4 == IF data.text_spacing # "absent"
              THEN [c3 EXCEPT !.ENABLE_TEXT_SPACING = (data.text_spacing = "true")]
              ELSE c3
    IN  IF ~data.json THEN [raised |-> TRUE, cfg |-> cfg]
        ELSE IF data.max_workers.kind = "text" THEN [raised |-> TRUE, cfg |-> cfg]
        ELSE IF data.font_scale.kind = "text" THEN [raised |-> TRUE, cfg |-> c1]
        ELSE IF data.image_quality.kind = "text" THEN [raised |-> TRUE, cfg |-> c2]
        ELSE [raised |-> FALSE, cfg |-> c4]

(***************************************************************************)
(* State.                                                                  *)
(***************************************************************************)
VARIABLES
    doc,                 \* the request's document
    MAX_WORKERS,         \* the module globals of src/main.py 24-28
    FONT_SCALE_FACTOR,   \* in percent
    IMAGE_QUALITY,
    ENABLE_TEXT_SPACING,
    pc,                  \* where the request thread is
    max_workers,         \* the size the executor was created with
    submitted,           \* enumerate(doc): pages submitted so far
    future,              \* page number -> state and result of its future
    worker,              \* page number -> the locals of its process_page call
    html_parts,          \* the html_parts of pdf_to_html
    response,            \* what /convert returned
    at_start,            \* history: the globals when pdf_to_html was entered
    config_response,     \* what the latest /config request returned
    request,             \* src/app.py: the request of /convert or /convert-url
    app_pc,              \* src/app.py: where its handler is
    temp_dir,            \* src/app.py: the files of the request in TEMP_DIR
    app_response         \* src/app.py: what the handler returned

vars == <<doc, MAX_WORKERS, FONT_SCALE_FACTOR, IMAGE_QUALITY, ENABLE_TEXT_SPACING,
          pc, max_workers, submitted, future, worker, html_parts, response,
          at_start, config_response, request, app_pc, temp_dir, app_response>>

config == <<MAX_WORKERS, FONT_SCALE_FACTOR, IMAGE_QUALITY, ENABLE_TEXT_SPACING>>

app_vars == <<request, app_pc, temp_dir, app_response>>

main_vars == <<doc, config, pc, max_workers, submitted, future, worker, html_parts, response,
               at_start, config_response>>

page_count == Len(doc.pages)

PageNums == 0..(page_count - 1)

PageOf(page_num) == doc.pages[page_num + 1]

NoResponse == [status |-> 0, kind |-> "none", body |-> <<>>]

IdleWorker == [pc |-> "idle", k |-> 0, j |-> 0, html_parts |-> <<>>, images_html |-> <<>>]

NoFuture == [state |-> "none", result |-> <<>>]

Globals == Config(MAX_WORKERS, FONT_SCALE_FACTOR, IMAGE_QUALITY, ENABLE_TEXT_SPACING)

NoConfigResponse == [status |-> 0, kind |-> "none"]

NoRequest ==
    [endpoint |-> "none", valid |-> FALSE, transfer |-> "ok", use_spire |-> FALSE,
     conversion |-> "ok", html_removable |-> TRUE, pdf_removable |-> TRUE]

InitWith(documents, requests) ==
    /\ doc \in documents
    /\ request \in requests
    /\ app_pc = "request"
    /\ temp_dir = {}
    /\ app_response = NoResponse
    /\ MAX_WORKERS = DefaultMaxWorkers
    /\ FONT_SCALE_FACTOR = DefaultFontScalePercent
    /\ IMAGE_QUALITY = DefaultImageQuality
    /\ ENABLE_TEXT_SPACING = TRUE
    /\ pc = "request"
    /\ max_workers = 0
    /\ submitted = 0
    /\ future = [p \in PageNums |-> NoFuture]
    /\ worker = [p \in PageNums |-> IdleWorker]
    /\ html_parts = <<>>
    /\ response = NoResponse
    /\ at_start = Globals
    /\ config_response = NoConfigResponse

Init == InitWith(Docs, {NoRequest})

(***************************************************************************)
(* The request thread: convert (src/main.py 303-352) and pdf_to_html       *)
(* (src/main.py 194-301).                                                  *)
(***************************************************************************)
ErrorResponse(status) == [status |-> status, kind |-> "error", body |-> <<>>]

HtmlResponse(html) == [status |-> 200, kind |-> "html", body |-> html]

\* convert up to the call of pdf_to_html: no data and too little data are
\* answered with 400.
ConvertRequest ==
    /\ pc = "request"
    /\ IF doc.data \in {"none", "short"}
       THEN /\ response' = ErrorResponse(400)
            /\ pc' = "responded"
       ELSE /\ pc' = "open"
            /\ UNCHANGED response
    /\ UNCHANGED <<app_vars, doc, config, config_response, at_start,
                   max_workers, submitted, future, worker, html_parts>>

\* fitz.open, the head of the document and the executor, created with the
\* MAX_WORKERS of this moment; an exception of fitz.open leaves pdf_to_html and
\* convert answers 500.
OpenDocumentUnchecked ==
    /\ pc = "open"
    /\ html_parts' = <<DocumentHead(page_count)>>
    /\ max_workers' = MAX_WORKERS
    /\ pc' = "submit"
    /\ at_start' = Globals
    /\ UNCHANGED <<app_vars, doc, config, config_response, submitted, future, worker, response>>

OpenDocument ==
    /\ pc = "open"
    /\ IF doc.opens
       THEN /\ html_parts' = <<DocumentHead(page_count)>>
            /\ max_workers' = MAX_WORKERS
            /\ pc' = "submit"
            /\ UNCHANGED response
       ELSE /\ response' = ErrorResponse(500)
            /\ pc' = "responded"
            /\ UNCHANGED <<html_parts, max_workers>>
    /\ at_start' = Globals
    /\ UNCHANGED <<app_vars, doc, config, config_response, submitted, future, worker>>

\* One step of the dict comprehension of src/main.py 255-258: the document
\* yields its next page and the page is submitted.  A page that cannot be
\* loaded raises here, in the request thread, inside the with block.
SubmitPage ==
    /\ pc = "submit"
    /\ submitted < page_count
    /\ IF PageOf(submitted).loads
       THEN /\ future' = [future EXCEPT ![submitted].state = "pending"]
            /\ submitted' = submitted + 1
            /\ UNCHANGED pc
       ELSE /\ pc' = "unwind"
            /\ UNCHANGED <<future, submitted>>
    /\ UNCHANGED <<app_vars, doc, config, config_response, at_start,
                   max_workers, worker, html_parts, response>>

AllSubmitted ==
    /\ pc = "submit"
    /\ submitted = page_count
    /\ pc' = "collect"
    /\ UNCHANGED <<app_vars, doc, config, config_response, at_start,
                   max_workers, submitted, future, worker, html_parts, response>>

Collected == {html_parts[n].page_num : n \in 2..Len(html_parts)}

\* The future whose result is awaited next (src/main.py 261): the futures
\* sorted by their page number, in turn.
AsCompleted == {p \in PageNums \ Collected : future[p].state = "finished"}

NextFuture == {p \in PageNums \ Collected : \A q \in PageNums \ Collected : p <= q}

\* html_parts.append(future.result()): blocks until that future has finished.
CollectResult ==
    /\ pc = "collect"
    /\ \E p \in NextFuture :
        /\ future[p].state = "finished"
        /\ html_parts' = Append(html_parts, future[p].result)
    /\ UNCHANGED <<app_vars, doc, config, config_response, at_start,
                   max_workers, pc, submitted, future, worker, response>>

\* The end of the with block, the script, the closing tags, and the 200
\* response of convert.
ReturnHtml ==
    /\ pc = "collect"
    /\ Collected = PageNums
    /\ html_parts' = html_parts \o <<DocumentScript, DocumentClose>>
    /\ response' = HtmlResponse(html_parts')
    /\ pc' = "responded"
    /\ UNCHANGED <<app_vars, doc, config, config_response, at_start,
                   max_workers, submitted, future, worker>>

\* An exception inside the with block: the executor is shut down, which waits
\* for the submitted pages, and the exception reaches convert, which answers 500.
Unwind ==
    /\ pc = "unwind"
    /\ \A p \in PageNums : future[p].state \in {"none", "finished"}
    /\ response' = ErrorResponse(500)
    /\ pc' = "responded"
    /\ UNCHANGED <<app_vars, doc, config, config_response, at_start,
                   max_workers, submitted, future, worker, html_parts>>

(***************************************************************************)
(* The pool threads: process_page (src/main.py 78-192) of one page.        *)
(***************************************************************************)
Running == {p \in PageNums : future[p].state = "running"}

\* A free pool thread takes the oldest pending page; process_page reads the
\* page size and the text blocks.  An exception of get_text is caught by the
\* outer try and the page becomes the error placeholder.
StartPage(p) ==
    /\ future[p].state = "pending"
    /\ \A q \in PageNums : q < p => future[q].state # "pending"
    /\ Cardinality(Running) < max_workers
    /\ IF PageOf(p).text_ok
       THEN /\ future' = [future EXCEPT ![p].state = "running"]
            /\ worker' = [worker EXCEPT ![p] =
                   [pc |-> "text", k |-> 1, j |-> 0,
                    html_parts |-> <<PageOpen(PageOf(p)), TextLayerOpen>>,
                    images_html |-> <<>>]]
       ELSE /\ future' = [future EXCEPT ![p] = [state |-> "finished", result |-> ErrorPage(p)]]
            /\ UNCHANGED worker
    /\ UNCHANGED <<app_vars, doc, config, config_response, at_start,
                   max_workers, pc, submitted, html_parts, response>>

\* One pass of the span loop, reading the globals as they are now.
ProcessSpan(p) ==
    /\ worker[p].pc = "text"
    /\ worker[p].k <= Len(PageOf(p).runs)
    /\ worker' = [worker EXCEPT
           ![p].html_parts = @ \o SpanParts(PageOf(p), worker[p].k, FONT_SCALE_FACTOR,
                                            ENABLE_TEXT_SPACING),
           ![p].k = @ + 1]
    /\ UNCHANGED <<app_vars, doc, config, config_response, at_start,
                   max_workers, pc, submitted, future, html_parts, response>>

\* The text layer is closed and the images are listed; an exception of
\* get_images is caught by the try of src/main.py 135 and leaves the page
\* without images.
CloseTextLayer(p) ==
    /\ worker[p].pc = "text"
    /\ worker[p].k > Len(PageOf(p).runs)
    /\ worker' = [worker EXCEPT
           ![p].html_parts = Append(@, TextLayerClose),
           ![p].pc = IF PageOf(p).images_ok THEN "images" ELSE "finish",
           ![p].j = 1]
    /\ UNCHANGED <<app_vars, doc, config, config_response, at_start,
                   max_workers, pc, submitted, future, html_parts, response>>

\* One pass of the image loop; an exception that left the loop body would be
\* caught by the try of src/main.py 135 and end the loop.
ProcessImage(p) ==
    /\ worker[p].pc = "images"
    /\ worker[p].j <= Len(PageOf(p).images)
    /\ LET r == ImageParts(PageOf(p), worker[p].j)
       IN  worker' = [worker EXCEPT
               ![p].images_html = @ \o r.parts,
               ![p].pc = IF r.raised THEN "finish" ELSE @,
               ![p].j = @ + 1]
    /\ UNCHANGED <<app_vars, doc, config, config_response, at_start,
                   max_workers, pc, submitted, future, html_parts, response>>

\* The images follow the text layer, the page div is closed and the fragment
\* is the result of the future.
FinishPage(p) ==
    /\ \/ worker[p].pc = "finish"
       \/ worker[p].pc = "images" /\ worker[p].j > Len(PageOf(p).images)
    /\ future' = [future EXCEPT ![p] =
           [state |-> "finished",
            result |-> PdfPage(p, worker[p].html_parts \o worker[p].images_html
                                     \o <<PageClose>>)]]
    /\ worker' = [worker EXCEPT ![p] = [IdleWorker EXCEPT !.pc = "done"]]
    /\ UNCHANGED <<app_vars, doc, config, config_response, at_start,
                   max_workers, pc, submitted, html_parts, response>>

(***************************************************************************)
(* The /config handler (src/main.py 374-404), which runs in a thread of    *)
(* its own while conversions are under way.                                *)
(***************************************************************************)
\* POST: the globals are updated field by field; 200 when every field was
\* converted, 400 when the body is no JSON object or a field raised.
ConfigPost(data) ==
    LET r == UpdateConfig(Globals, data)
    IN  /\ MAX_WORKERS' = r.cfg.MAX_WORKERS
        /\ FONT_SCALE_FACTOR' = r.cfg.FONT_SCALE_FACTOR
        /\ IMAGE_QUALITY' = r.cfg.IMAGE_QUALITY
        /\ ENABLE_TEXT_SPACING' = r.cfg.ENABLE_TEXT_SPACING
        /\ config_response' = IF r.raised THEN [status |-> 400, kind |-> "error"]
                               ELSE [status |-> 200, kind |-> "updated"]
        /\ UNCHANGED <<app_vars, doc, at_start, max_workers, pc, submitted, future, worker,
                       html_parts, response>>

\* GET: the current values are returned.
ConfigGet ==
    /\ config_response' = [status |-> 200, kind |-> "config"]
    /\ UNCHANGED <<app_vars, doc, config, at_start, max_workers, pc, submitted, future, worker,
                   html_parts, response>>

Next ==
    \/ ConvertRequest
    \/ OpenDocument
    \/ SubmitPage
    \/ AllSubmitted
    \/ CollectResult
    \/ ReturnHtml
    \/ Unwind
    \/ \E p \in PageNums : StartPage(p)
    \/ \E p \in PageNums : ProcessSpan(p)
    \/ \E p \in PageNums : CloseTextLayer(p)
    \/ \E p \in PageNums : ProcessImage(p)
    \/ \E p \in PageNums : FinishPage(p)

Spec == Init /\ [][Next]_vars

(***************************************************************************)
(* The /config endpoint alone: any sequence of GET and POST requests, no   *)
(* conversion under way.                                                   *)
(***************************************************************************)
ConfigInit == InitWith({Document("pdf", TRUE, <<PlainPage>>)}, {NoRequest})

ConfigNext ==
    \/ \E data \in PostBodies : ConfigPost(data)
    \/ ConfigGet

ConfigSpec == ConfigInit /\ [][ConfigNext]_vars

(***************************************************************************)
(* The service: conversions of a few documents interleaved with /config    *)
(* requests.                                                               *)
(***************************************************************************)
TwoSpanPage(loads, images) ==
    Page(loads, TRUE, <<PlainRun, Run(<<"a">>, 200, 700, 10, 0, 0, 1)>>, <<>>, TRUE, images)

ServiceDocs ==
    {Document("pdf", TRUE, <<TwoSpanPage(TRUE, <<Pixmap(640, 480, 3, TRUE)>>)>>),
     Document("pdf", TRUE, <<TwoSpanPage(TRUE, <<>>), TwoSpanPage(FALSE, <<>>)>>),
     Document("pdf", FALSE, <<PlainPage>>)}

ServiceBodies ==
    {PostBody(Number(2), Number(70), Number(60), "false"),
     PostBody(Absent, Number(200), Absent, "absent")}

ServiceInit == InitWith(ServiceDocs, {NoRequest})

ServiceNext ==
    \/ Next
    \/ \E data \in ServiceBodies : ConfigPost(data)
    \/ ConfigGet

ServiceSpec == ServiceInit /\ [][ServiceNext]_vars

(***************************************************************************)
(* src/app.py: the handlers of /convert (convert_pdf) and /convert-url     *)
(* (convert_url) with convert_pdf_to_html, one request at a time.  A       *)
(* request says which endpoint it is for, whether it passes the checks of  *)
(* the handler, how the transfer of the PDF goes (ok; refused: requests.get*)
(* raises; status: the download answers other than 200; broken: writing    *)
(* pdf_path raises after the file was created), which converter is         *)
(* installed, where the conversion raises (load: before html_path is       *)
(* opened; write: with html_path open; read: reading it back), and whether *)
(* os.remove succeeds on each file.                                        *)
(***************************************************************************)
AppRequests ==
    {r \in [endpoint : {"convert", "convert-url"}, valid : BOOLEAN,
            transfer : {"ok", "refused", "status", "broken"}, use_spire : BOOLEAN,
            conversion : {"ok", "load", "write", "read"}, html_removable : BOOLEAN,
            pdf_removable : BOOLEAN] :
        r.endpoint = "convert" => r.transfer \in {"ok", "broken"}}

\* The checks of convert_pdf (src/app.py 50-62) and convert_url (src/app.py
\* 93-96): a request that fails them is answered with 400.
ValidateRequest ==
    /\ app_pc = "request"
    /\ request.endpoint # "none"
    /\ IF request.valid
       THEN /\ app_pc' = IF request.endpoint = "convert-url" THEN "download" ELSE "save"
            /\ UNCHANGED app_response
       ELSE /\ app_pc' = "done"
            /\ app_response' = ErrorResponse(400)
    /\ UNCHANGED <<main_vars, request, temp_dir>>

\* requests.get of convert_url (src/app.py 101-103).
DownloadPdf ==
    /\ app_pc = "download"
    /\ IF request.transfer = "refused"
       THEN app_pc' = "done" /\ app_response' = ErrorResponse(500)
       ELSE IF request.transfer = "status"
       THEN app_pc' = "done" /\ app_response' = ErrorResponse(400)
       ELSE app_pc' = "save" /\ UNCHANGED app_response
    /\ UNCHANGED <<main_vars, request, temp_dir>>

\* file.save(pdf_path) (src/app.py 70) or the chunks written to pdf_path
\* (src/app.py 111-113); an exception is answered with 500 by the except of
\* the handler.
SavePdf ==
    /\ app_pc = "save"
    /\ temp_dir' = temp_dir \cup {"pdf_path"}
    /\ IF request.transfer = "broken"
       THEN app_pc' = "done" /\ app_response' = ErrorResponse(500)
       ELSE app_pc' = "load" /\ UNCHANGED app_response
    /\ UNCHANGED <<main_vars, request>>

\* An exception inside convert_pdf_to_html: convert_with_spire raises it again
\* (src/app.py 233-235) and the except of the handler answers 500 (src/app.py
\* 85-87, 129-131); convert_with_fallback returns an error page (src/app.py
\* 385-409), with which the handler goes on.
ConversionRaised ==
    IF request.use_spire
    THEN app_pc' = "done" /\ app_response' = ErrorResponse(500)
    ELSE app_pc' = "remove_pdf" /\ UNCHANGED app_response

\* The PDF is loaded (src/app.py 143-145) or its text extracted (src/app.py
\* 253-255, 297).
LoadPdf ==
    /\ app_pc = "load"
    /\ IF request.conversion = "load"
       THEN ConversionRaised
       ELSE app_pc' = "write" /\ UNCHANGED app_response
    /\ UNCHANGED <<main_vars, request, temp_dir>>

\* html_path is opened for writing and the markup is written (src/app.py
\* 154-216, 287-288, 339-340, 370-371).
WriteHtml ==
    /\ app_pc = "write"
    /\ temp_dir' = temp_dir \cup {"html_path"}
    /\ IF request.conversion = "write"
       THEN ConversionRaised
       ELSE app_pc' = "read" /\ UNCHANGED app_response
    /\ UNCHANGED <<main_vars, request>>

\* html_path is read back (src/app.py 222-223, 374-375).
ReadHtml ==
    /\ app_pc = "read"
    /\ IF request.conversion = "read"
       THEN ConversionRaised
       ELSE app_pc' = "remove_html" /\ UNCHANGED app_response
    /\ UNCHANGED <<main_vars, request, temp_dir>>

\* os.remove(html_path), its failure only logged (src/app.py 226-231, 378-383).
RemoveHtml ==
    /\ app_pc = "remove_html"
    /\ temp_dir' = IF request.html_removable THEN temp_dir \ {"html_path"} ELSE temp_dir
    /\ app_pc' = "remove_pdf"
    /\ UNCHANGED <<main_vars, request, app_response>>

\* os.remove(pdf_path), its failure only logged, and the content is returned
\* (src/app.py 78-83, 122-127).
RemovePdf ==
    /\ app_pc = "remove_pdf"
    /\ temp_dir' = IF request.pdf_removable THEN temp_dir \ {"pdf_path"} ELSE temp_dir
    /\ app_pc' = "done"
    /\ app_response' =
           [status |-> 200, kind |-> IF request.conversion = "ok" THEN "html" ELSE "error-html",
            body |-> <<>>]
    /\ UNCHANGED <<main_vars, request>>

AppInit == InitWith({Document("pdf", TRUE, <<PlainPage>>)}, AppRequests)

AppNext ==
    \/ ValidateRequest
    \/ DownloadPdf
    \/ SavePdf
    \/ LoadPdf
    \/ WriteHtml
    \/ ReadHtml
    \/ RemoveHtml
    \/ RemovePdf

AppSpec == AppInit /\ [][AppNext]_vars

(***************************************************************************)
(* Properties.                                                             *)
(***************************************************************************)
IsFragment(n) == n.kind \in {"pdf-page", "error-page"}

IsTextNode(n) == n.kind = "pdf-text"

IsImageNode(n) == n.kind = "pdf-image"

\* The pages whose process_page call has returned a pdf-page fragment.
Rendered == {p \in PageNums : future[p].state = "finished" /\ future[p].result.kind = "pdf-page"}

PartsOf(p) == future[p].result.parts

TextNodesOf(p) == SelectSeq(PartsOf(p), IsTextNode)

ImageNodesOf(p) == SelectSeq(PartsOf(p), IsImageNode)

Blank(text) == \A c \in 1..Len(text) : text[c] \in Whitespace

InRange(v) == v >= 10 /\ v <= 5000

\* C1: the fragments pdf_to_html has appended, at any moment and in the
\* returned markup, are those of pages 0, 1, 2, ... in this order, one per
\* page, whatever the order in which the pool threads finished; the returned
\* markup holds exactly one fragment for every page of the document.
C1_FragmentsInPageOrder ==
    LET collected == SelectSeq(html_parts, IsFragment)
        returned == SelectSeq(response.body, IsFragment)
    IN  /\ \A n \in 1..Len(collected) : collected[n].page_num = n - 1
        /\ response.kind = "html" =>
              /\ Len(returned) = page_count
              /\ \A n \in 1..Len(returned) : returned[n] = future[n - 1].result

\* Page 2 has finished before page 1 and the fragment of page 0 is collected.
C1_Witness ==
    /\ page_count = 3
    /\ Collected = {0}
    /\ future[2].state = "finished"
    /\ future[1].state = "running"

\* C2: once the request of an openable document is answered, the answer is
\* the markup, with the error placeholder for exactly the pages that failed
\* (while being loaded or while being rendered) and a pdf-page block for
\* every other page.
C2_PageFailureIsolated ==
    (pc = "responded" /\ doc.data = "pdf" /\ doc.opens) =>
        /\ response.kind = "html"
        /\ LET returned == SelectSeq(response.body, IsFragment)
           IN  /\ Len(returned) = page_count
               /\ \A n \in 1..Len(returned) :
                     returned[n].kind = "error-page" <=>
                        (~doc.pages[n].loads \/ ~doc.pages[n].text_ok)

\* C3: a page whose text was extracted is rendered, whatever happens to its
\* images: the fragment opens the page, holds the whole text layer, then one
\* image node for exactly the images that were extracted, valid and encoded
\* (the images after a failing one included), and closes the page.
C3_ImageFailureIsolated ==
    \A p \in PageNums :
        (future[p].state = "finished" /\ PageOf(p).text_ok) =>
            LET page == PageOf(p)
                parts == PartsOf(p)
                texts == {k \in 1..Len(page.runs) : ~Blank(page.runs[k].text)}
                good == {j \in 1..Len(page.images) :
                            /\ page.images_ok
                            /\ page.images[j].kind = "pixmap"
                            /\ page.images[j].encodes
                            /\ InRange(page.images[j].width)
                            /\ InRange(page.images[j].height)}
                m == Cardinality(texts)
            IN  /\ future[p].result.kind = "pdf-page"
                /\ Len(parts) = m + Cardinality(good) + 4
                /\ parts[1].kind = "page-open"
                /\ parts[2].kind = "text-layer-open"
                /\ \A n \in 3..(m + 2) : parts[n].kind = "pdf-text"
                /\ {parts[n].run : n \in 3..(m + 2)} = texts
                /\ parts[m + 3].kind = "text-layer-close"
                /\ \A n \in (m + 4)..(Len(parts) - 1) : parts[n].kind = "pdf-image"
                /\ {parts[n].img_index + 1 : n \in (m + 4)..(Len(parts) - 1)} = good
                /\ parts[Len(parts)].kind = "page-close"

\* A rendered page whose first image failed (it could not be extracted or
\* encoded) and whose second image has its node.
C3_Witness ==
    \E p \in Rendered :
        /\ Len(PageOf(p).images) = 2
        /\ PageOf(p).images[1].kind = "broken" \/ ~PageOf(p).images[1].encodes
        /\ Len(ImageNodesOf(p)) = 1
        /\ ImageNodesOf(p)[1].img_index = 1

\* C4 as claimed: every text node has left = x and top = H - y.
C4_TopIsFlipped ==
    \A p \in Rendered : \A n \in 1..Len(TextNodesOf(p)) :
        LET node == TextNodesOf(p)[n]
        IN  /\ node.left = PageOf(p).runs[node.run].x
            /\ node.top = PageOf(p).height - PageOf(p).runs[node.run].y

\* C4 as amended: every text node has left = x and top = y, the origin of
\* its span as the backend gave it; no flip is applied.
C4_TopIsOrigin ==
    \A p \in Rendered : \A n \in 1..Len(TextNodesOf(p)) :
        LET node == TextNodesOf(p)[n]
        IN  /\ node.left = PageOf(p).runs[node.run].x
            /\ node.top = PageOf(p).runs[node.run].y

\* The page of 800 points with a span at (50, 750): its node is at top 750.
C4_Witness ==
    \E p \in Rendered :
        /\ PageOf(p).height = 800
        /\ \E n \in 1..Len(TextNodesOf(p)) :
              /\ PageOf(p).runs[TextNodesOf(p)[n].run].y = 750
              /\ TextNodesOf(p)[n].left = 50
              /\ TextNodesOf(p)[n].top = 750

\* C5: in a rendered page, text nodes of different lines have different top
\* values, and the top values do not decrease in input order.
C5_DistinctLinePositions ==
    \A p \in Rendered :
        LET nodes == TextNodesOf(p)
            runs == PageOf(p).runs
        IN  \A a, b \in 1..Len(nodes) :
                a < b =>
                    /\ nodes[a].top <= nodes[b].top
                    /\ (<<runs[nodes[a].run].block, runs[nodes[a].run].line>>
                            # <<runs[nodes[b].run].block, runs[nodes[b].run].line>>)
                         => nodes[a].top # nodes[b].top

\* The line of the non-blank spans ks of a page: their sanitized texts by
\* ascending x, joined by single spaces.
RECURSIVE JoinByX(_, _)
JoinByX(runs, ks) ==
    IF ks = {} THEN <<>>
    ELSE LET k == CHOOSE a \in ks :
                      \A b \in ks : runs[a].x < runs[b].x \/ (runs[a].x = runs[b].x /\ a <= b)
         IN  sanitize_text(runs[k].text)
                \o (IF ks = {k} THEN <<>> ELSE <<" ">> \o JoinByX(runs, ks \ {k}))

\* C6: in a rendered page, the non-blank spans of one baseline y make one text
\* node, whose content is their sanitized texts by ascending x joined by single
\* spaces; no two text nodes come from the same baseline.
C6_SameBaselineMerged ==
    \A p \in Rendered :
        LET nodes == TextNodesOf(p)
            runs == PageOf(p).runs
            live == {k \in 1..Len(runs) : ~Blank(runs[k].text)}
        IN  /\ Len(nodes) = Cardinality({runs[k].y : k \in live})
            /\ \A n \in 1..Len(nodes) :
                  nodes[n].text = JoinByX(runs, {k \in live : runs[k].y = runs[nodes[n].run].y})

\* C7: no text node is built from a span whose text is empty or only
\* whitespace, no text node has an empty content, and a page never has more
\* text nodes than it has spans with other than whitespace; this holds of the
\* fragment under construction and of the finished one.
C7_NoNodeForBlankRun ==
    \A p \in PageNums :
        LET parts == IF p \in Rendered THEN PartsOf(p) ELSE worker[p].html_parts
            nodes == SelectSeq(parts, IsTextNode)
            runs == PageOf(p).runs
        IN  /\ \A n \in 1..Len(nodes) : nodes[n].text # <<>> /\ ~Blank(runs[nodes[n].run].text)
            /\ Len(nodes) <= Cardinality({k \in 1..Len(runs) : ~Blank(runs[k].text)})

\* A rendered page of a whitespace-only span followed by a span of text: one node.
C7_Witness ==
    \E p \in Rendered :
        /\ Len(PageOf(p).runs) = 2
        /\ PageOf(p).runs[1].text = <<" ">>
        /\ Len(TextNodesOf(p)) = 1
        /\ TextNodesOf(p)[1].run = 2

\* C8 as claimed: sanitizing the content of a text node, which is sanitized
\* text, gives it back.
C8_SanitizeIdempotent ==
    \A p \in Rendered : \A n \in 1..Len(TextNodesOf(p)) :
        sanitize_text(TextNodesOf(p)[n].text) = TextNodesOf(p)[n].text

HasSpecial(text) == \E c \in 1..Len(text) : text[c] \in {"&", "<", ">"}

\* C8 as amended: sanitizing the content of a text node gives it back exactly
\* when the text of its span holds none of & < >; with one of them the second
\* pass escapes the & of the entity again.
C8_IdempotentWithoutSpecials ==
    \A p \in Rendered : \A n \in 1..Len(TextNodesOf(p)) :
        LET node == TextNodesOf(p)[n]
        IN  (sanitize_text(node.text) = node.text) <=> ~HasSpecial(PageOf(p).runs[node.run].text)

\* A text node whose span had whitespace to collapse or strip and no special
\* character: a second pass changes nothing.
C8_Witness ==
    \E p \in Rendered : \E n \in 1..Len(TextNodesOf(p)) :
        LET node == TextNodesOf(p)[n]
        IN  /\ ~HasSpecial(PageOf(p).runs[node.run].text)
            /\ Len(node.text) < Len(PageOf(p).runs[node.run].text)
            /\ sanitize_text(node.text) = node.text

\* C9: among the images of a rendered page that were extracted and can be
\* encoded, those with an image node are exactly those whose width and height
\* are both from 10 to 5000, bounds included.
C9_SizeValidation ==
    \A p \in Rendered :
        PageOf(p).images_ok =>
            \A j \in 1..Len(PageOf(p).images) :
                LET img == PageOf(p).images[j]
                IN  (img.kind = "pixmap" /\ img.encodes) =>
                        ((\E n \in 1..Len(ImageNodesOf(p)) : ImageNodesOf(p)[n].img_index = j - 1)
                            <=> (InRange(img.width) /\ InRange(img.height)))

\* A rendered page with an image of width 10, kept, and one of width 5001, skipped.
C9_Witness ==
    \E p \in Rendered :
        /\ Len(PageOf(p).images) = 2
        /\ PageOf(p).images[1].width = 10
        /\ PageOf(p).images[2].width = 5001
        /\ Len(ImageNodesOf(p)) = 1
        /\ ImageNodesOf(p)[1].img_index = 0

\* C10: the encoded image of an image node has its longer side equal to 1200
\* and its shorter side within one pixel of the scaled one, and at least 1,
\* when the longer side of the image is above 1200; it has the size of the
\* image otherwise.
C10_ResizeToCap ==
    \A p \in Rendered : \A n \in 1..Len(ImageNodesOf(p)) :
        LET node == ImageNodesOf(p)[n]
            img == PageOf(p).images[node.img_index + 1]
            long == Max2(img.width, img.height)
            short == Min2(img.width, img.height)
            enc_long == Max2(node.src.width, node.src.height)
            enc_short == Min2(node.src.width, node.src.height)
        IN  IF long > 1200
            THEN /\ enc_long = 1200
                 /\ enc_short >= 1
                 /\ enc_short * long - short * 1200 <= long
                 /\ short * 1200 - enc_short * long <= long
            ELSE node.src.width = img.width /\ node.src.height = img.height

\* C11: in a rendered page every image node is placed at a bounding box of the
\* page's block list, or at (0, 0, width, height) of its image when the list
\* has no image block; and when the list has two image blocks with different
\* bounding boxes, the nodes of two different images are not at the same place.
C11_ImageAtOwnBBox ==
    \A p \in Rendered :
        LET nodes == ImageNodesOf(p)
            page == PageOf(p)
            blocks == page.image_blocks
            Place(node) == <<node.left, node.top, node.left + node.width, node.top + node.height>>
        IN  /\ \A n \in 1..Len(nodes) :
                  IF blocks = <<>>
                  THEN Place(nodes[n]) = <<0, 0, page.images[nodes[n].img_index + 1].width,
                                           page.images[nodes[n].img_index + 1].height>>
                  ELSE \E b \in 1..Len(blocks) : Place(nodes[n]) = blocks[b]
            /\ (Len(blocks) = 2 /\ blocks[1] # blocks[2]) =>
                  \A a, b \in 1..Len(nodes) : a # b => Place(nodes[a]) # Place(nodes[b])

\* C12: in the markup a conversion returns, every text node has the font size
\* of its span scaled by the FONT_SCALE_FACTOR that was in force when
\* pdf_to_html was entered, and every JPEG image is encoded with the
\* IMAGE_QUALITY that was in force then, whatever /config requests were served
\* while the conversion ran.
C12_ConfigOfStart ==
    response.kind = "html" =>
        \A f \in 1..Len(response.body) :
            response.body[f].kind = "pdf-page" =>
                LET page == PageOf(response.body[f].page_num)
                    parts == response.body[f].parts
                IN  \A n \in 1..Len(parts) :
                        /\ IsTextNode(parts[n]) =>
                              parts[n].font_size
                                 = page.runs[parts[n].run].size * at_start.FONT_SCALE_FACTOR
                        /\ (IsImageNode(parts[n]) /\ parts[n].src.fmt = "jpeg") =>
                              parts[n].src.quality = at_start.IMAGE_QUALITY

\* C13: at the start and after any sequence of GET and POST /config requests,
\* accepted or rejected, MAX_WORKERS is from 1 to 8, FONT_SCALE_FACTOR from
\* 0.5 to 1.5 (50 to 150 percent) and IMAGE_QUALITY from 50 to 100.
C13_ConfigInRange ==
    /\ MAX_WORKERS >= 1 /\ MAX_WORKERS <= 8
    /\ FONT_SCALE_FACTOR >= 50 /\ FONT_SCALE_FACTOR <= 150
    /\ IMAGE_QUALITY >= 50 /\ IMAGE_QUALITY <= 100

\* A POST with max_workers 100, font_scale 0 and image_quality 1000 was
\* accepted and left the values at the nearest ends of their ranges.
C13_Witness ==
    /\ config_response.kind = "updated"
    /\ MAX_WORKERS = 8
    /\ FONT_SCALE_FACTOR = 50
    /\ IMAGE_QUALITY = 100

\* C14: the request of a document that cannot be opened builds no markup and
\* starts no page: nothing is appended to html_parts, no page is submitted,
\* and the request ends in the error response with status 500, the only
\* response it ever has.
C14_UnopenableIsOneError ==
    (doc.data = "pdf" /\ ~doc.opens) =>
        /\ html_parts = <<>>
        /\ submitted = 0
        /\ \A p \in PageNums : future[p] = NoFuture
        /\ response \in {NoResponse, ErrorResponse(500)}
        /\ response.body = <<>>
        /\ pc \in {"request", "open", "responded"}
        /\ (pc = "responded") <=> (response = ErrorResponse(500))

\* The request of a document that cannot be opened has been answered.
C14_Witness ==
    /\ doc.data = "pdf"
    /\ ~doc.opens
    /\ pc = "responded"
    /\ response.status = 500
    /\ response.kind = "error"

\* C15: in a rendered page, every image that was extracted, passes the size
\* test and can be saved has exactly one image node, whatever its channel
\* count: a JPEG data URL when it has 3 channels or more, a PNG data URL when
\* it has fewer.
C15_FormatByChannelCount ==
    \A p \in Rendered :
        PageOf(p).images_ok =>
            \A j \in 1..Len(PageOf(p).images) :
                LET img == PageOf(p).images[j]
                    nodes == {n \in 1..Len(ImageNodesOf(p)) : ImageNodesOf(p)[n].img_index = j - 1}
                IN  (img.kind = "pixmap" /\ img.encodes /\ InRange(img.width)
                        /\ InRange(img.height)) =>
                        /\ Cardinality(nodes) = 1
                        /\ \A n \in nodes :
                              ImageNodesOf(p)[n].src.fmt = IF img.n >= 3 THEN "jpeg" ELSE "png"

\* A rendered page with a 4-channel image, encoded as JPEG, and a 2-channel
\* image, encoded as PNG.
C15_Witness ==
    \E p \in Rendered :
        /\ Len(PageOf(p).images) = 2
        /\ PageOf(p).images[1].n = 4
        /\ PageOf(p).images[2].n = 2
        /\ Len(ImageNodesOf(p)) = 2
        /\ ImageNodesOf(p)[1].src.fmt = "jpeg"
        /\ ImageNodesOf(p)[2].src.fmt = "png"

\* C16: a POST /config request answered with 400 leaves MAX_WORKERS,
\* FONT_SCALE_FACTOR, IMAGE_QUALITY and ENABLE_TEXT_SPACING as they were
\* before the request.
C16_RejectedPostChangesNothing ==
    [][((\E data \in PostBodies : ConfigPost(data)) /\ config_response'.status = 400)
          => config' = config]_vars

\* C17: when a request of /convert or /convert-url of src/app.py has been
\* answered, with the markup or with an error, neither its pdf_path nor its
\* html_path exists in TEMP_DIR.
C17_NoTempFileLeft ==
    app_pc = "done" => temp_dir = {}
====
